---------------------------- MODULE Spec2Model ----------------------------
(* Model of src/mcp_server/main.py: the fetch-classify-cache pipeline of   *)
(* the Tradingview MCP server and its two tools.                           *)
(*                                                                         *)
(* Scores are fixed-point: one unit is 0.05, so 1.0 is 20, 0.5 is 10 and   *)
(* 0.1 is 2.  Floats are totally ordered apart from NaN, which is a cell   *)
(* of its own, so the comparisons of the code are exact on this grid.      *)
(* Python lists and dicts are sequences (dicts are sequences of <<key,     *)
(* value>> pairs, in insertion order).  A value of a table or of a JSON    *)
(* array is a cell: a number, a string, NaN or None.                       *)
EXTENDS Integers, Sequences, FiniteSets, TLC

VARIABLES
    today,              \* the calendar date, as a day number
    parent,             \* whether the directory src/tempDir exists
    fs,                 \* what is at src/tempDir/<day>.csv, for every day
    DATA_EXPORT_PATH,   \* per server process: the day its path names, 0 before import
    pc,                 \* per server process: where its tool invocation stands
    frame,              \* per server process: the locals of its tool invocation
    log,                \* the finished tool invocations, in order of completion
    call,               \* SpecFn: the function to apply and its arguments
    ret                 \* SpecFn: what the application returned or raised

sysvars == <<today, parent, fs, DATA_EXPORT_PATH, pc, frame, log>>
fnvars == <<call, ret>>
vars == <<today, parent, fs, DATA_EXPORT_PATH, pc, frame, log, call, ret>>

---------------------------------------------------------------------------
(* Cells *)

Num(n) == [t |-> "num", n |-> n, s |-> ""]
Str(s) == [t |-> "str", n |-> 0, s |-> s]
NaN    == [t |-> "nan", n |-> 0, s |-> ""]
None   == [t |-> "none", n |-> 0, s |-> ""]

(* Results of a call: a returned value or a raised exception *)
NoExc == [type |-> "", msg |-> ""]
Exc(type, msg) == [type |-> type, msg |-> msg]
Return(v) == [ok |-> TRUE, val |-> v, exc |-> NoExc]
Raise(e) == [ok |-> FALSE, val |-> <<>>, exc |-> e]

Range(f) == {f[i] : i \in DOMAIN f}

RECURSIVE SeqsUpTo(_, _)
SeqsUpTo(S, n) ==
    IF n = 0 THEN {<<>>}
    ELSE LET shorter == SeqsUpTo(S, n - 1)
         IN  shorter \cup {Append(q, x) : q \in {r \in shorter : Len(r) = n - 1}, x \in S}

---------------------------------------------------------------------------
(* _create_recommendation *)

P10 == 20    \* 1.0
P05 == 10    \* 0.5
P01 == 2     \* 0.1

value_mapping ==
    << <<"strong_buy", P05, P10>>,
       <<"buy", P01, P05>>,
       <<"neutral", -P01, P01>>,
       <<"sell", -P05, -P01>>,
       <<"strong_sell", -P10, -P05>> >>

\* a faulty variant: upper ends inclusive, lower ends exclusive
Between_m(value, min_value, max_value) ==
    /\ value.t = "num"
    /\ min_value < value.n
    /\ value.n <= max_value

\* min_value <= value <= max_value; every comparison with NaN is false
Between(value, min_value, max_value) ==
    /\ value.t = "num"
    /\ min_value <= value.n
    /\ value.n <= max_value

_create_recommendation(value) ==
    IF value.t \notin {"num", "nan"}
    THEN Raise(Exc("ValueError", "Unable to create recommendation"))
    ELSE LET hits == {i \in DOMAIN value_mapping :
                        Between(value, value_mapping[i][2], value_mapping[i][3])}
         IN  IF hits = {}
             THEN Raise(Exc("ValueError", "Unable to create recommendation column"))
             ELSE Return(value_mapping[CHOOSE i \in hits : \A j \in hits : i <= j][1])

---------------------------------------------------------------------------
(* pandas.DataFrame: an index (row labels), column names, and one sequence *)
(* of cells per row, aligned with the columns                              *)

COLUMNS == <<"name", "Recommend.All">>

DataFrame(index, columns, data) ==
    [index |-> index, columns |-> columns, data |-> data]

RangeIndex(n) == [i \in 1..n |-> i - 1]

HasColumn(df, c) == \E i \in DOMAIN df.columns : df.columns[i] = c
ColumnPos(df, c) == CHOOSE i \in DOMAIN df.columns : df.columns[i] = c
\* df[c]: the cells of column c, in row order
Column(df, c) == [k \in DOMAIN df.data |-> df.data[k][ColumnPos(df, c)]]

SeqMax(lens) == CHOOSE m \in Range(lens) : \A x \in Range(lens) : x <= m

Pad(row, n) == [i \in 1..n |-> IF i <= Len(row) THEN row[i] ELSE None]

\* pd.DataFrame(rows, columns=COLUMNS): short rows are padded up to the
\* longest one; the longest one must have as many cells as COLUMNS
pd_DataFrame(rows, columns) ==
    LET width == SeqMax([k \in DOMAIN rows |-> Len(rows[k])])
    IN  IF width # Len(columns)
        THEN Raise(Exc("ValueError", "columns passed, passed data had other columns"))
        ELSE Return(DataFrame(RangeIndex(Len(rows)), columns,
                              [k \in DOMAIN rows |-> Pad(rows[k], width)]))

---------------------------------------------------------------------------
(* _get_tradingview_response, _create_response_df *)

\* What the provider answers to one POST: no answer or an error status, a
\* body that is not JSON, or a JSON object with or without the key "data"
Down == [status |-> "down", json |-> FALSE, hasData |-> FALSE, data |-> <<>>]
NotJson == [status |-> "ok", json |-> FALSE, hasData |-> FALSE, data |-> <<>>]
NoDataKey == [status |-> "ok", json |-> TRUE, hasData |-> FALSE, data |-> <<>>]
Payload(data) == [status |-> "ok", json |-> TRUE, hasData |-> TRUE, data |-> data]

\* One entry of the data collection, with or without the key "d"
NoD == [hasD |-> FALSE, d |-> <<>>]
D(values) == [hasD |-> TRUE, d |-> values]

_get_tradingview_response(provider) ==
    IF provider.status # "ok"
    THEN Raise(Exc("TradingviewError", "Unable to connect to Tradingview API server"))
    ELSE Return(provider)

\* a faulty variant: an entry without a usable array is kept as an empty row
Truthy_m(row) == TRUE

\* row.get("d", None) is truthy: the key is there and the array is not empty
Truthy(row) == row.hasD /\ row.d # <<>>

ExtractRows(api_data) ==
    LET kept == SelectSeq(api_data, Truthy)
    IN  [k \in DOMAIN kept |-> kept[k].d]

\* df["Recommend.All"].apply(_create_recommendation), as a new column
WithRecommendation(df) ==
    LET labels == [k \in DOMAIN df.data |->
                      _create_recommendation(Column(df, "Recommend.All")[k])]
    IN  IF \E k \in DOMAIN labels : ~labels[k].ok
        THEN Raise(labels[CHOOSE k \in DOMAIN labels : ~labels[k].ok].exc)
        ELSE Return(DataFrame(df.index, Append(df.columns, "recommendation"),
                 [k \in DOMAIN df.data |-> Append(df.data[k], Str(labels[k].val))]))

\* The body of the try block, lines 94-109
ResponseDfBody(provider) ==
    LET response == _get_tradingview_response(provider)
    IN  IF ~response.ok THEN response
        ELSE IF ~response.val.json
        THEN Raise(Exc("JSONDecodeError", "Expecting value"))
        ELSE IF ~response.val.hasData \/ response.val.data = <<>>
        THEN Raise(Exc("TradingviewError", "Unable to find the data key to parse"))
        ELSE LET rows == ExtractRows(response.val.data)
             IN  IF rows = <<>>
                 THEN Raise(Exc("TradingviewError", "Unable to find the rows"))
                 ELSE LET df == pd_DataFrame(rows, COLUMNS)
                      IN  IF ~df.ok THEN df ELSE WithRecommendation(df.val)

\* the bare except of line 110 replaces whatever was raised
_create_response_df(provider) ==
    LET r == ResponseDfBody(provider)
    IN  IF r.ok THEN r
        ELSE Raise(Exc("TradingviewError", "Unable to parse the data from API response"))

---------------------------------------------------------------------------
(* DataFrame.to_csv(path, index=False) and pd.read_csv(path)               *)

\* The text of a CSV file: the header line and the fields of each line.  A
\* field is Num(n), the digits of n, or Str(s), the characters of s.
CsvFile(header, lines) == [header |-> header, lines |-> lines]

\* an empty file, as 'touch' leaves it
EmptyFile == CsvFile(<<>>, <<>>)

\* na_rep = "": NaN and None are written as the empty field
FieldOf(cell) == IF cell.t \in {"nan", "none"} THEN Str("") ELSE cell

to_csv(df) ==
    CsvFile(df.columns,
            [k \in DOMAIN df.data |-> [i \in DOMAIN df.data[k] |-> FieldOf(df.data[k][i])]])

\* the fields read_csv takes for a missing value (pandas' STR_NA_VALUES)
NA_VALUES ==
    {"", "#N/A", "#N/A N/A", "#NA", "-1.#IND", "-1.#QNAN", "-NaN", "-nan",
     "1.#IND", "1.#QNAN", "<NA>", "N/A", "NA", "NULL", "NaN", "None", "n/a",
     "nan", "null"}

CellOf(field) ==
    IF field.t = "str" /\ field.s \in NA_VALUES THEN NaN ELSE field

read_csv(file) ==
    IF file.header = <<>>
    THEN Raise(Exc("EmptyDataError", "No columns to parse from file"))
    ELSE Return(DataFrame(RangeIndex(Len(file.lines)), file.header,
            [k \in DOMAIN file.lines |->
                [i \in DOMAIN file.lines[k] |-> CellOf(file.lines[k][i])]]))

---------------------------------------------------------------------------
(* The two tools, as functions of what _load_df returned or raised         *)

PREAMBLE == "The following recommendations are based on technical analysis"

\* df[["name", "recommendation"]].to_dict(orient="records")
Records(df) ==
    [k \in DOMAIN df.data |->
        << <<"name", Column(df, "name")[k]>>,
           <<"recommendation", Column(df, "recommendation")[k]>> >>]

GetBody(loaded) ==
    IF ~loaded.ok THEN loaded
    ELSE IF ~HasColumn(loaded.val, "name") THEN Raise(Exc("KeyError", "name"))
    ELSE IF ~HasColumn(loaded.val, "recommendation")
    THEN Raise(Exc("KeyError", "recommendation"))
    ELSE Return([preamble |-> PREAMBLE, records |-> Records(loaded.val)])

\* a faulty variant: only the failures of the body are wrapped, those of _load_df escape
Get_m(loaded) ==
    LET r == GetBody(loaded)
    IN  IF r.ok \/ ~loaded.ok THEN r
        ELSE Raise(Exc("TradingviewError", "Unable to fetch the data from tradingview"))

get_stock_recommendations(loaded) ==
    LET r == GetBody(loaded)
    IN  IF r.ok THEN r
        ELSE Raise(Exc("TradingviewError", "Unable to fetch the data from tradingview"))

\* df["name"].isin(tickers): NaN is in no list of strings
IsIn(cell, tickers) == cell.t = "str" /\ cell.s \in Range(tickers)

\* a faulty variant: the filtered frame is renumbered (reset_index(drop=True))
Filter_m(df, mask) ==
    LET kept == SelectSeq([k \in DOMAIN df.data |-> k], LAMBDA k : mask[k])
    IN  DataFrame(RangeIndex(Len(kept)), df.columns,
                  [j \in DOMAIN kept |-> df.data[kept[j]]])

\* df[mask]: the rows where the mask holds, each under its own label
Filter(df, mask) ==
    LET kept == SelectSeq([k \in DOMAIN df.data |-> k], LAMBDA k : mask[k])
    IN  DataFrame([j \in DOMAIN kept |-> df.index[kept[j]]], df.columns,
                  [j \in DOMAIN kept |-> df.data[kept[j]]])

\* DataFrame.to_dict(): {column: {label: value}}
to_dict(df) ==
    [i \in DOMAIN df.columns |->
        <<df.columns[i], [k \in DOMAIN df.data |-> <<df.index[k], df.data[k][i]>>]>>]

CheckBody(loaded, tickers) ==
    IF ~loaded.ok THEN loaded
    ELSE IF ~HasColumn(loaded.val, "name") THEN Raise(Exc("KeyError", "name"))
    ELSE LET df == loaded.val
             mask == [k \in DOMAIN df.data |-> IsIn(Column(df, "name")[k], tickers)]
         IN  Return(to_dict(Filter(df, mask)))

check_stock_values(loaded, tickers) ==
    LET r == CheckBody(loaded, tickers)
    IN  IF r.ok THEN r
        ELSE Raise(Exc("TradingviewError", "Unable to find the stock values"))

---------------------------------------------------------------------------
(* Well-formed payloads: what the provider is expected to answer           *)

IsPayload(provider) == provider.status = "ok" /\ provider.json /\ provider.hasData

\* the positions of the entries that carry a non-empty field-values array
Carrying(data) == {k \in DOMAIN data : data[k].hasD /\ data[k].d # <<>>}

\* one value per schema column, and a score within [-1.0, 1.0]
WellFormedArray(d) ==
    /\ Len(d) = Len(COLUMNS)
    /\ d[2].t = "num"
    /\ -P10 <= d[2].n
    /\ d[2].n <= P10

WellFormed(provider) ==
    /\ IsPayload(provider)
    /\ Carrying(provider.data) # {}
    /\ \A k \in Carrying(provider.data) : WellFormedArray(provider.data[k].d)

---------------------------------------------------------------------------
(* SpecFn: the pure functions applied to inputs drawn from bounded sets *)

MaxAbsScore == 45     \* scores range over -2.25 .. 2.25
MaxEntries == 4       \* entries of a payload's data collection
MaxRows == 3          \* lines of a cache file

ClassifyInputs ==
    {Num(n) : n \in -MaxAbsScore..MaxAbsScore} \cup {NaN, None, Str("abc")}

\* entries: without "d", with an empty, a short, a full and a long array,
\* with scores inside and outside [-1.0, 1.0]
Entries ==
    {NoD, D(<<>>), D(<<Str("AAPL")>>),
     D(<<Str("AAPL"), Num(P05)>>), D(<<Str("MSFT"), Num(-4)>>),
     D(<<Str("NA"), Num(30)>>), D(<<Str("AAPL"), Num(0), Str("x")>>)}

Providers ==
    {Down, NotJson, NoDataKey} \cup {Payload(data) : data \in SeqsUpTo(Entries, MaxEntries)}

CACHE_COLUMNS == Append(COLUMNS, "recommendation")

Lines == {<<Str(name), Num(P05), Str("strong_buy")>> : name \in {"AAPL", "MSFT", "NA"}}

CacheFiles == {CsvFile(CACHE_COLUMNS, lines) : lines \in SeqsUpTo(Lines, MaxRows)}

TickerLists ==
    {<<>>, <<"AAPL">>, <<"AAPL", "ZZZZ">>, <<"NA">>, <<"MSFT", "AAPL">>, <<"ZZZZ">>}

---------------------------------------------------------------------------
(* The server processes, the clock and the cache directory                 *)

NumProcs == 2     \* server processes sharing the cache directory
MaxDay == 2       \* calendar days
MaxCalls == 2     \* tool invocations in all

Procs == 1..NumProcs
Days == 1..MaxDay

\* what a path of the cache directory names
Absent == [kind |-> "absent", content |-> EmptyFile]
Dir == [kind |-> "dir", content |-> EmptyFile]
File(content) == [kind |-> "file", content |-> content]

\* the provider's answers to a POST
GoodPayload == Payload(<<D(<<Str("MSFT"), Num(-4)>>), NoD, D(<<Str("AAPL"), Num(P05)>>)>>)
BadPayload == Payload(<<D(<<Str("MSFT"), Num(30)>>)>>)
Answers == {Down, GoodPayload, BadPayload}

\* what an invocation got from the provider: nothing asked, a well-formed
\* payload, or anything else
Answered(provider) == IF WellFormed(provider) THEN "good" ELSE "bad"

\* the cache files that may lie in the directory before any server runs
FileA == CsvFile(CACHE_COLUMNS,
            << <<Str("MSFT"), Num(-4), Str("sell")>>,
               <<Str("NA"), Num(0), Str("neutral")>>,
               <<Str("AAPL"), Num(P05), Str("strong_buy")>> >>)
FileB == CsvFile(CACHE_COLUMNS, << <<Str("AAPL"), Num(P01), Str("buy")>> >>)
\* the file of day d, where there is one
DayFile(d) == IF d % 2 = 1 THEN FileA ELSE FileB

Tools == {[tool |-> "get_stock_recommendations", tickers |-> <<>>],
          [tool |-> "check_stock_values", tickers |-> <<"AAPL", "ZZZZ">>]}

NoDf == DataFrame(<<>>, <<>>, <<>>)
NoFrame == [tool |-> "", tickers |-> <<>>, day |-> 0, began |-> 0, existed |-> FALSE,
            answer |-> "none", df |-> NoDf]

Init ==
    /\ today = 1
    /\ parent \in BOOLEAN
    /\ \E present \in SUBSET Days :
          /\ ~parent => present = {}
          /\ fs = [d \in Days |-> IF d \in present THEN File(DayFile(d)) ELSE Absent]
    /\ DATA_EXPORT_PATH = [p \in Procs |-> 0]
    /\ pc = [p \in Procs |-> "idle"]
    /\ frame = [p \in Procs |-> NoFrame]
    /\ log = <<>>
    /\ call = [fn |-> "none", applied |-> FALSE]
    /\ ret = Return(<<>>)

\* the date changes
Midnight ==
    /\ today < MaxDay
    /\ today' = today + 1
    /\ UNCHANGED <<parent, fs, DATA_EXPORT_PATH, pc, frame, log, call, ret>>

\* lines 14-16: the module is imported and DATA_EXPORT_PATH computed.  The
\* processes are alike, so they are numbered in the order they start.
Import(p) ==
    /\ DATA_EXPORT_PATH[p] = 0
    /\ \A q \in Procs : q < p => DATA_EXPORT_PATH[q] # 0
    /\ DATA_EXPORT_PATH' = [DATA_EXPORT_PATH EXCEPT ![p] = today]
    /\ UNCHANGED <<today, parent, fs, pc, frame, log, call, ret>>

Begun == Len(log) + Cardinality({p \in Procs : pc[p] # "idle"})

\* the tool applied to what _load_df returned or raised
ToolResult(f, loaded) ==
    IF f.tool = "get_stock_recommendations"
    THEN get_stock_recommendations(loaded)
    ELSE check_stock_values(loaded, f.tickers)

\* the invocation of process p ends: _load_df has returned or raised
Finish(p, f, loaded, wrote) ==
    /\ log' = Append(log, [proc |-> p, tool |-> f.tool, day |-> f.day,
                           path |-> DATA_EXPORT_PATH[p], began |-> f.began,
                           existed |-> f.existed, answer |-> f.answer,
                           wrote |-> wrote, loaded |-> loaded,
                           ret |-> ToolResult(f, loaded)])
    /\ pc' = [pc EXCEPT ![p] = "idle"]
    /\ frame' = [frame EXCEPT ![p] = NoFrame]

\* a tool is invoked and _load_df tests path.exists() (line 133)
Invoke(p) ==
    \E t \in Tools :
        /\ DATA_EXPORT_PATH[p] # 0
        /\ pc[p] = "idle"
        /\ Begun < MaxCalls
        /\ LET existed == fs[DATA_EXPORT_PATH[p]].kind # "absent"
           IN  /\ frame' = [frame EXCEPT ![p] =
                      [NoFrame EXCEPT !.tool = t.tool, !.tickers = t.tickers,
                                      !.day = today, !.began = Len(log),
                                      !.existed = existed]]
               /\ pc' = [pc EXCEPT ![p] = IF existed THEN "read_csv" ELSE "mkdir"]
        /\ UNCHANGED <<today, parent, fs, DATA_EXPORT_PATH, log, call, ret>>

\* line 134: path.mkdir(exist_ok=False) makes a directory at the path
Mkdir(p) ==
    /\ pc[p] = "mkdir"
    /\ IF ~parent
       THEN /\ Finish(p, frame[p], Raise(Exc("FileNotFoundError", "No such file or directory")), FALSE)
            /\ UNCHANGED fs
       ELSE IF fs[DATA_EXPORT_PATH[p]].kind # "absent"
       THEN /\ Finish(p, frame[p], Raise(Exc("FileExistsError", "File exists")), FALSE)
            /\ UNCHANGED fs
       ELSE /\ fs' = [fs EXCEPT ![DATA_EXPORT_PATH[p]] = Dir]
            /\ pc' = [pc EXCEPT ![p] = "build"]
            /\ UNCHANGED <<frame, log>>
    /\ UNCHANGED <<today, parent, DATA_EXPORT_PATH, call, ret>>

\* line 135: _create_response_df() posts to the provider and builds
CreateResponseDf(p) ==
    \E provider \in Answers :
        /\ pc[p] = "build"
        /\ LET f == [frame[p] EXCEPT !.answer = Answered(provider)]
               df == _create_response_df(provider)
           IN  IF df.ok
               THEN /\ frame' = [frame EXCEPT ![p] = [f EXCEPT !.df = df.val]]
                    /\ pc' = [pc EXCEPT ![p] = "to_csv"]
                    /\ UNCHANGED log
               ELSE Finish(p, f, df, FALSE)
        /\ UNCHANGED <<today, parent, fs, DATA_EXPORT_PATH, call, ret>>

\* lines 136-137: df.to_csv(path, index=False) opens the path for writing
ToCsv(p) ==
    /\ pc[p] = "to_csv"
    /\ IF fs[DATA_EXPORT_PATH[p]].kind = "dir"
       THEN /\ Finish(p, frame[p], Raise(Exc("IsADirectoryError", "Is a directory")), FALSE)
            /\ UNCHANGED fs
       ELSE /\ fs' = [fs EXCEPT ![DATA_EXPORT_PATH[p]] = File(to_csv(frame[p].df))]
            /\ Finish(p, frame[p], Return(frame[p].df), TRUE)
    /\ UNCHANGED <<today, parent, DATA_EXPORT_PATH, call, ret>>

\* lines 139-140: pd.read_csv(path)
ReadCsv(p) ==
    /\ pc[p] = "read_csv"
    /\ LET entry == fs[DATA_EXPORT_PATH[p]]
       IN  IF entry.kind = "dir"
           THEN Finish(p, frame[p], Raise(Exc("IsADirectoryError", "Is a directory")), FALSE)
           ELSE IF entry.kind = "absent"
           THEN Finish(p, frame[p], Raise(Exc("FileNotFoundError", "No such file or directory")), FALSE)
           ELSE Finish(p, frame[p], read_csv(entry.content), FALSE)
    /\ UNCHANGED <<today, parent, fs, DATA_EXPORT_PATH, call, ret>>

Next ==
    \/ Midnight
    \/ \E p \in Procs : Import(p)
    \/ \E p \in Procs : Invoke(p)
    \/ \E p \in Procs : Mkdir(p)
    \/ \E p \in Procs : CreateResponseDf(p)
    \/ \E p \in Procs : ToCsv(p)
    \/ \E p \in Procs : ReadCsv(p)

Spec == Init /\ [][Next]_vars

\* the function to apply and its arguments; .applied once it has been applied
Calls ==
    {[fn |-> "_create_recommendation", applied |-> FALSE, value |-> value] :
        value \in ClassifyInputs}
    \cup {[fn |-> "_create_response_df", applied |-> FALSE, provider |-> provider] :
        provider \in Providers}
    \cup {[fn |-> "check_stock_values", applied |-> FALSE, file |-> file,
           df |-> read_csv(file).val, tickers |-> tickers] :
        file \in CacheFiles, tickers \in TickerLists}

Applied(fn) == call.fn = fn /\ call.applied

FnInit ==
    /\ call \in Calls
    /\ ret = Return(<<>>)
    /\ today = 1
    /\ parent = TRUE
    /\ fs = [d \in Days |-> Absent]
    /\ DATA_EXPORT_PATH = [p \in Procs |-> 0]
    /\ pc = [p \in Procs |-> "idle"]
    /\ frame = [p \in Procs |-> NoFrame]
    /\ log = <<>>

Classify ==
    /\ call.fn = "_create_recommendation"
    /\ ~call.applied
    /\ call' = [call EXCEPT !.applied = TRUE]
    /\ ret' = _create_recommendation(call.value)
    /\ UNCHANGED sysvars

Build ==
    /\ call.fn = "_create_response_df"
    /\ ~call.applied
    /\ call' = [call EXCEPT !.applied = TRUE]
    /\ ret' = _create_response_df(call.provider)
    /\ UNCHANGED sysvars

Check ==
    /\ call.fn = "check_stock_values"
    /\ ~call.applied
    /\ call' = [call EXCEPT !.applied = TRUE]
    /\ ret' = check_stock_values(read_csv(call.file), call.tickers)
    /\ UNCHANGED sysvars

FnNext == Classify \/ Build \/ Check

SpecFn == FnInit /\ [][FnNext]_vars

---------------------------------------------------------------------------
(* C3: for every numeric score s, _create_recommendation returns           *)
(* strong_buy when 0.5 <= s <= 1.0, buy when 0.1 <= s < 0.5, neutral when  *)
(* -0.1 <= s < 0.1, sell when -0.5 <= s < -0.1, strong_sell when           *)
(* -1.0 <= s < -0.5, and raises when s < -1.0 or s > 1.0.                  *)
C3_ClassifyTable ==
    (Applied("_create_recommendation") /\ call.value.t = "num") =>
        LET s == call.value.n
        IN  /\ (P05 <= s /\ s <= P10) => (ret.ok /\ ret.val = "strong_buy")
            /\ (P01 <= s /\ s < P05) => (ret.ok /\ ret.val = "buy")
            /\ (-P01 <= s /\ s < P01) => (ret.ok /\ ret.val = "neutral")
            /\ (-P05 <= s /\ s < -P01) => (ret.ok /\ ret.val = "sell")
            /\ (-P10 <= s /\ s < -P05) => (ret.ok /\ ret.val = "strong_sell")
            /\ (s < -P10 \/ s > P10) => ~ret.ok

\* the boundary 0.5 has been classified, and it went to strong_buy
C3_Witness ==
    /\ Applied("_create_recommendation")
    /\ call.value = Num(P05)
    /\ ret.ok
    /\ ret.val = "strong_buy"

---------------------------------------------------------------------------
(* C8 *)

\* the number of the row that the entry at position k becomes
RowOf(data, k) == Cardinality({i \in Carrying(data) : i <= k})

OneRowPerEntry(data, df) ==
    /\ Len(df.data) = Cardinality(Carrying(data))
    /\ \A k \in Carrying(data) :
          SubSeq(df.data[RowOf(data, k)], 1, Len(data[k].d)) = data[k].d

\* C8 as stated: for every payload whose data collection has at least one
\* entry carrying a field-values array, _create_response_df drops the
\* entries that lack it and returns one row per remaining entry, in
\* payload order.
C8_AnyPayloadBuilds ==
    (/\ Applied("_create_response_df")
     /\ IsPayload(call.provider)
     /\ \E k \in DOMAIN call.provider.data : call.provider.data[k].hasD) =>
        /\ ret.ok
        /\ Len(ret.val.data) =
              Cardinality({k \in DOMAIN call.provider.data : call.provider.data[k].hasD})
        /\ OneRowPerEntry(call.provider.data, ret.val)

\* C8 amended: for every payload whose data collection has at least one
\* entry carrying a non-empty field-values array, and whose non-empty
\* arrays all have one value per schema column and a score within
\* [-1.0, 1.0], _create_response_df drops the entries whose array is absent
\* or empty and returns one row per remaining entry, in payload order.
C8_WellFormedPayloadBuilds ==
    (/\ Applied("_create_response_df")
     /\ IsPayload(call.provider)
     /\ Carrying(call.provider.data) # {}
     /\ \A k \in Carrying(call.provider.data) : WellFormedArray(call.provider.data[k].d)) =>
        /\ ret.ok
        /\ OneRowPerEntry(call.provider.data, ret.val)

\* three valid entries and one entry without the array gave three rows
C8_Witness ==
    /\ Applied("_create_response_df")
    /\ IsPayload(call.provider)
    /\ Len(call.provider.data) = 4
    /\ Cardinality({k \in DOMAIN call.provider.data : ~call.provider.data[k].hasD}) = 1
    /\ Cardinality(Carrying(call.provider.data)) = 3
    /\ ret.ok
    /\ Len(ret.val.data) = 3

---------------------------------------------------------------------------
(* C9: _create_response_df distinguishes its empty-input failures: an      *)
(* absent data collection raises one failure, an empty collection or one   *)
(* whose entries are all dropped raises another; no Dataset is returned.   *)
C9_DistinguishesEmptyInputs ==
    Applied("_create_response_df") =>
        /\ call.provider = NoDataKey => ~ret.ok
        /\ (IsPayload(call.provider) /\ Carrying(call.provider.data) = {}) =>
              /\ ~ret.ok
              /\ ret.exc # _create_response_df(NoDataKey).exc

---------------------------------------------------------------------------
(* C4: check_stock_values returns exactly the rows whose name is a member  *)
(* of tickers, in Dataset order, each keyed by its original row position;  *)
(* a ticker that matches no row contributes no row and causes no error.    *)

\* the row positions (from 0) of the Dataset whose name is in tickers
Matching(df, tickers) ==
    {k - 1 : k \in {j \in DOMAIN df.data :
                      \E i \in DOMAIN tickers : df.data[j][1] = Str(tickers[i])}}

C4_CheckValuesFilters ==
    Applied("check_stock_values") =>
        /\ ret.ok
        /\ Len(ret.val) = Len(call.df.columns)
        /\ \A c \in DOMAIN ret.val :
              LET column == ret.val[c][2]
              IN  /\ ret.val[c][1] = call.df.columns[c]
                  /\ {column[j][1] : j \in DOMAIN column} = Matching(call.df, call.tickers)
                  /\ \A i, j \in DOMAIN column : i < j => column[i][1] < column[j][1]
                  /\ \A j \in DOMAIN column :
                        column[j][2] = call.df.data[column[j][1] + 1][c]

\* "AAPL" at row 2 and no "ZZZZ": one row comes back, under the key 2
C4_Witness ==
    /\ Applied("check_stock_values")
    /\ call.tickers = <<"AAPL", "ZZZZ">>
    /\ Len(call.df.data) = 3
    /\ call.df.data[3][1] = Str("AAPL")
    /\ call.df.data[1][1] # Str("AAPL")
    /\ call.df.data[2][1] # Str("AAPL")
    /\ ret.ok
    /\ ret.val[1][2] = << <<2, Str("AAPL")>> >>

---------------------------------------------------------------------------
(* Claims about the tools and the cache.  An invocation is an entry of log *)

\* invocation j was made after invocation i had finished
After(i, j) == i < j /\ log[j].began >= i

\* invocations i and j were in progress at the same time
Overlap(i, j) == i < j /\ log[j].began < i

Succeeded(i) == log[i].ret.ok

StaticMessage(tool) ==
    IF tool = "get_stock_recommendations"
    THEN "Unable to fetch the data from tradingview"
    ELSE "Unable to find the stock values"

(* C5: whatever stage fails, both tools report the failure as the single   *)
(* error type TradingviewError with a static message; no other error kind  *)
(* escapes.                                                                *)
C5_SingleErrorKind ==
    \A i \in DOMAIN log :
        ~Succeeded(i) =>
            /\ log[i].ret.exc.type = "TradingviewError"
            /\ log[i].ret.exc.msg = StaticMessage(log[i].tool)

\* both tools have failed, one on the provider and one on the storage
C5_Witness ==
    \E i, j \in DOMAIN log :
        /\ log[i].tool = "get_stock_recommendations"
        /\ log[j].tool = "check_stock_values"
        /\ ~log[i].loaded.ok
        /\ ~log[j].loaded.ok
        /\ log[i].loaded.exc.type = "IsADirectoryError"
        /\ log[j].loaded.exc.type = "TradingviewError"
        /\ log[i].ret.exc = Exc("TradingviewError", StaticMessage(log[i].tool))
        /\ log[j].ret.exc = Exc("TradingviewError", StaticMessage(log[j].tool))

(* C1: _load_df called twice in succession on a path that does not exist   *)
(* before the first call, the provider answering with a well-formed        *)
(* payload: the first call returns the built Dataset and persists it, the  *)
(* second returns what the first persisted, and the provider is asked      *)
(* exactly once.                                                           *)
C1_SecondCallReadsFirst ==
    \A i \in DOMAIN log :
        (~log[i].existed /\ log[i].answer = "good") =>
            /\ log[i].loaded.ok
            /\ log[i].loaded.val = _create_response_df(GoodPayload).val
            /\ log[i].wrote
            /\ \A j \in DOMAIN log :
                  (/\ After(i, j)
                   /\ log[j].path = log[i].path
                   /\ \A k \in DOMAIN log : (i < k /\ k < j) => log[k].path # log[i].path) =>
                      /\ log[j].loaded.ok
                      /\ log[j].loaded.val = read_csv(to_csv(log[i].loaded.val)).val
                      /\ log[j].answer = "none"

(* C2: each tool call fails independently.  The case stated: the cache     *)
(* directory exists and an invocation that found no cache file has failed; *)
(* then a later invocation of either tool on the same day, to which the    *)
(* provider gives no bad answer, succeeds.                                 *)
C2_FailureLeavesNoTrace ==
    \A i, j \in DOMAIN log :
        (/\ parent
         /\ ~log[i].existed
         /\ ~Succeeded(i)
         /\ After(i, j)
         /\ log[j].day = log[i].day
         /\ log[j].answer # "bad") => Succeeded(j)

(* C6: two invocations race on a cache file that is missing, on the same   *)
(* day: both complete with a Dataset, and afterwards the cache file holds  *)
(* one complete Dataset, that of the last writer.                          *)
C6_BenignRace ==
    \A i, j \in DOMAIN log :
        (/\ parent
         /\ Overlap(i, j)
         /\ log[i].path = log[j].path
         /\ log[i].day = log[j].day
         /\ ~log[i].existed
         /\ ~log[j].existed
         /\ log[i].answer # "bad"
         /\ log[j].answer # "bad") =>
            /\ log[i].loaded.ok
            /\ log[j].loaded.ok
            /\ fs[log[i].path] \in {File(to_csv(log[i].loaded.val)),
                                    File(to_csv(log[j].loaded.val))}

(* C7: every invocation uses the cache path named by the date current at   *)
(* the invocation; one that finds no cache file asks the provider and      *)
(* creates that day's file.                                                *)
C7_PathOfInvocationDay ==
    \A i \in DOMAIN log :
        /\ log[i].path = log[i].day
        /\ (parent /\ ~log[i].existed /\ log[i].answer = "good") =>
              fs[log[i].day].kind = "file"

(* C10: there is one cache file per day, its content never changes once    *)
(* it is there, and every invocation of a day that returns data returns    *)
(* the same snapshot.                                                      *)
C10_OneSnapshotPerDay ==
    /\ [](\A i, j \in DOMAIN log :
            (Succeeded(i) /\ Succeeded(j) /\ log[i].day = log[j].day) =>
                log[i].loaded.val = log[j].loaded.val)
    /\ [][\A d \in Days : fs[d].kind = "file" => fs'[d] = fs[d]]_vars

===========================================================================
